---- MODULE Spec2Model ----
(***************************************************************************)
(* A model of the A2A call path of the haiku application:                  *)
(*   - haiku-app/app/tools.py: the tool handlers                           *)
(*     validate_haiku_with_external_agent and call_utility_a2a, the        *)
(*     generic handler _generic_a2a_tool_handler and the adapter           *)
(*     _invoke_a2a_agent;                                                  *)
(*   - a2a_utilities/test_client.py (a2a_validator/test_client.py holds    *)
(*     the same function): fetch_and_select_agent_card and                 *)
(*     call_utility_agent;                                                 *)
(*   - a2a_utilities/agent.py: spooky_case;                                *)
(*   - mcp-haiku-store/server.py: create_haiku, read_haiku, delete_haiku.  *)
(*                                                                         *)
(* Text is a sequence of tokens; each token stands for the characters      *)
(*   "F" = ```   "J" = json   "{" = {   "}" = }   "W" = one blank          *)
(*   "1" = the digit 1                                                     *)
(* Python dicts and pydantic objects are records; a key or attribute that  *)
(* is absent is a field the record does not have.  An f-string is the      *)
(* tuple of its literal text and its interpolated values.                  *)
(***************************************************************************)
EXTENDS Integers, Sequences, FiniteSets, TLC

(***************************************************************************)
(* Bounds of the model                                                     *)
(***************************************************************************)
\* the longest artifact list a Task of the model carries
MaxArtifacts == 2
\* the longest part list an artifact of the model carries
MaxParts == 2
\* the longest content string given to the extraction and to the parser
MaxTextLen == 5
\* the longest string given to spooky_case
MaxStringLen == 5
\* the number of tool calls the haiku store receives
MaxCalls == 3

(***************************************************************************)
(* Values                                                                  *)
(***************************************************************************)
\* the invocations of the model; MainInv are those the specification Spec runs
Inv == {"a", "b"}
MainInv == {"a"}

\* Python's None and optional values: <<>> is None, <<x>> is the value x
None == <<>>
Some(x) == <<x>>

\* the address the services are really deployed at, and a stale address a
\* descriptor may advertise
AgentUrl == "http://agent.example"
StaleUrl == "http://localhost:8001"
\* the default both tool handlers give os.getenv
DefaultUrl == "http://localhost:8002"

\* the values an environment variable can have: unset, empty, an address
EnvValues == {None, Some(""), Some(AgentUrl)}

\* the prompts of the model; MainPrompts are those the specification Spec uses
Prompts == {"haiku 1", "haiku 2"}
MainPrompts == {"haiku 1"}

\* the texts a text part of the model carries: "" and "{}"
EmptyText == <<>>
JsonText == <<"{", "}">>
Texts == {EmptyText, JsonText}

\* the tokens of a content string, and every content string of the model
Tokens == {"F", "J", "{", "}", "W", "1"}
Contents == UNION {[1..k -> Tokens] : k \in 0..MaxTextLen}

\* a2a.types.Part: a TextPart has the attribute text, a FilePart has not
TextPart(t) == [kind |-> "text", text |-> t]
FilePart == [kind |-> "file"]
Parts == {TextPart(t) : t \in Texts} \cup {FilePart}

SeqUpTo(S, n) == UNION {[1..k -> S] : k \in 0..n}

\* a2a.types.Artifact: parts is a required list, possibly empty
Artifacts == {[parts |-> ps] : ps \in SeqUpTo(Parts, MaxParts)}

\* a2a.types.Task: artifacts is an optional list
Tasks == {[kind |-> "task"]}
         \cup {[kind |-> "task", artifacts |-> as] : as \in SeqUpTo(Artifacts, MaxArtifacts)}

\* the other variant of a success result: a2a.types.Message
MessageResult == [kind |-> "message"]

\* the embedded detail of a JSON-RPC error response
ErrorDetails == {"task not found", "internal error"}

\* a2a.types.SendMessageResponse: root is a success or an error response
ErrorResponses == {[variant |-> "error", error |-> d] : d \in ErrorDetails}
SuccessResponses == {[variant |-> "success", result |-> r] : r \in Tasks \cup {MessageResult}}
Responses == ErrorResponses \cup SuccessResponses

\* the exceptions a network call raises: httpx.RequestError (a transport
\* failure), another Exception
NetErrors == {"httpx.RequestError", "Exception"}

\* a2a.types.AgentCard, reduced to the two attributes the code reads and the
\* name of the document: the public card or the extended one
CardsOf(doc) ==
  [name : {doc}, url : {AgentUrl, StaleUrl}, supports_authenticated_extended_card : BOOLEAN]
PublicCards == CardsOf("public")
ExtendedCards == CardsOf("extended")

\* how a coroutine ends: it returns a value or raises an exception
Return(v) == [kind |-> "return", value |-> v]
Raise(e) == [kind |-> "raise", exc |-> e]

\* Python truthiness of an optional string and of a list
FalsyOptStr(o) == o = None \/ o[1] = ""
FalsyList(l) == Len(l) = 0

(***************************************************************************)
(* tools.py: the pure steps                                                *)
(***************************************************************************)
Max(S) == CHOOSE m \in S : \A k \in S : k <= m
Min(S) == CHOOSE m \in S : \A k \in S : m <= k

\* the first index at or after i that holds no blank (Len(text) + 1 if none)
SkipBlanks(text, i) == Min({k \in i..(Len(text) + 1) : k = Len(text) + 1 \/ text[k] # "W"})

\* the index of the "{" a match of ```(?:json)?\s*({.*})\s*``` that starts at
\* index i opens its group at, or 0 when the pattern does not match there up
\* to the "{"
GroupStart(text, i) ==
  IF text[i] # "F" THEN 0
  ELSE LET j == IF i + 1 <= Len(text) /\ text[i + 1] = "J" THEN i + 2 ELSE i + 1
           b == SkipBlanks(text, j)
       IN  IF b <= Len(text) /\ text[b] = "{" THEN b ELSE 0

\* the indices the group of such a match can end at: a "}" followed by
\* blanks and the closing fence
GroupEnds(text, b) ==
  {k \in (b + 1)..Len(text) :
      /\ text[k] = "}"
      /\ LET f == SkipBlanks(text, k + 1) IN f <= Len(text) /\ text[f] = "F"}

\* the start indices at which re.search finds a match
MatchStarts(text) ==
  {i \in 1..Len(text) : GroupStart(text, i) # 0 /\ GroupEnds(text, GroupStart(text, i)) # {}}

\* _extract_json_from_markdown: group 1 of the leftmost match, .* being
\* greedy, or the text itself when nothing matches
extract_json_from_markdown(text) ==
  IF MatchStarts(text) # {}
  THEN LET b == GroupStart(text, Min(MatchStarts(text)))
       IN  SubSeq(text, b, Max(GroupEnds(text, b)))
  ELSE text

\* text without its leading and trailing blanks
Strip(text) ==
  LET keep == {k \in 1..Len(text) : text[k] # "W"}
  IN  IF keep = {} THEN <<>> ELSE SubSeq(text, Min(keep), Max(keep))

\* json.loads: the parsed value, or None for json.JSONDecodeError.  Over the
\* tokens of the model a JSON document is the empty object or an integer of
\* digits 1, between optional blanks.
json_loads(text) ==
  LET t == Strip(text)
  IN  IF Len(t) >= 2 /\ t[1] = "{" /\ t[Len(t)] = "}" /\ \A k \in 2..(Len(t) - 1) : t[k] = "W"
      THEN Some([type |-> "dict"])
      ELSE IF Len(t) >= 1 /\ \A k \in 1..Len(t) : t[k] = "1"
      THEN Some([type |-> "int", digits |-> Len(t)])
      ELSE None

\* a slip ContentPart could hold: the last part of the first artifact
ContentPart_last(task) == task.artifacts[1].parts[Len(task.artifacts[1].parts)]

\* the part _invoke_a2a_agent reads the content from
ContentPart(task) == task.artifacts[1].parts[1]

\* the null-safe check of _invoke_a2a_agent:
\*   not task.artifacts or not task.artifacts[0].parts
NoArtifactsOrParts(task) ==
  IF "artifacts" \notin DOMAIN task THEN TRUE
  ELSE IF FalsyList(task.artifacts) THEN TRUE
  ELSE FalsyList(task.artifacts[1].parts)

\* a slip response_handling could hold: the Task check comes first, and
\* reading .result of an error response raises AttributeError
response_handling_task_first(response) ==
  IF "result" \notin DOMAIN response
  THEN Raise("AttributeError")
  ELSE IF response.result.kind # "task"
  THEN Return([status |-> "error",
               message |-> <<"Agent response did not contain a valid Task object.">>])
  ELSE IF NoArtifactsOrParts(response.result)
  THEN Return([status |-> "error",
               message |-> <<"Agent response task did not contain any artifacts or parts.">>,
               raw_response |-> response])
  ELSE IF "text" \notin DOMAIN ContentPart(response.result)
  THEN Raise("AttributeError")
  ELSE Return([status |-> "success", content |-> ContentPart(response.result).text])

\* a slip response_handling could hold: the error for a Task without
\* artifacts or parts does not attach the raw response
response_handling_no_raw(response) ==
  IF response.variant # "success"
  THEN Return([status |-> "error",
               message |-> <<"Agent returned a non-success response: ", response.error>>])
  ELSE IF response.result.kind # "task"
  THEN Return([status |-> "error",
               message |-> <<"Agent response did not contain a valid Task object.">>])
  ELSE IF NoArtifactsOrParts(response.result)
  THEN Return([status |-> "error",
               message |-> <<"Agent response task did not contain any artifacts or parts.">>])
  ELSE IF "text" \notin DOMAIN ContentPart(response.result)
  THEN Raise("AttributeError")
  ELSE Return([status |-> "success", content |-> ContentPart(response.result).text])

\* _invoke_a2a_agent from "Robust Response Handling" on: what the adapter
\* returns, or raises, for a response
response_handling(response) ==
  IF response.variant # "success"
  THEN Return([status |-> "error",
               message |-> <<"Agent returned a non-success response: ", response.error>>])
  ELSE IF response.result.kind # "task"
  THEN Return([status |-> "error",
               message |-> <<"Agent response did not contain a valid Task object.">>])
  ELSE IF NoArtifactsOrParts(response.result)
  THEN Return([status |-> "error",
               message |-> <<"Agent response task did not contain any artifacts or parts.">>,
               raw_response |-> response])
  ELSE IF "text" \notin DOMAIN ContentPart(response.result)
  THEN Raise("AttributeError")
  ELSE Return([status |-> "success", content |-> ContentPart(response.result).text])

\* dict.get(key): None when the key is absent
Get(d, key) == IF key \in DOMAIN d THEN Some(d[key]) ELSE None

\* a slip FalsyOptText could hold: only None is taken as empty
FalsyOptText_none_only(o) == o = None

\* Python truthiness of an optional text
FalsyOptText(o) == o = None \/ Len(o[1]) = 0

\* a slip parse_validator_response could hold: the parse error carries the
\* extracted candidate, not the text received
parse_validator_response_clean(result) ==
  IF result.status # "success" THEN result
  ELSE LET validator_output_str == Get(result, "content")
       IN  IF FalsyOptText(validator_output_str)
           THEN [status |-> "error",
                 message |-> <<"Validator agent returned an empty response.">>,
                 raw_response |-> result]
           ELSE LET clean_json_str == extract_json_from_markdown(validator_output_str[1])
                IN  IF json_loads(clean_json_str) # None
                    THEN [status |-> "success",
                          validation_result |-> json_loads(clean_json_str)[1]]
                    ELSE [status |-> "error",
                          message |-> <<"Failed to parse JSON from validator agent's response.">>,
                          raw_response |-> clean_json_str]

\* _parse_validator_response
parse_validator_response(result) ==
  IF result.status # "success" THEN result
  ELSE LET validator_output_str == Get(result, "content")
       IN  IF FalsyOptText(validator_output_str)
           THEN [status |-> "error",
                 message |-> <<"Validator agent returned an empty response.">>,
                 raw_response |-> result]
           ELSE LET clean_json_str == extract_json_from_markdown(validator_output_str[1])
                IN  IF json_loads(clean_json_str) # None
                    THEN [status |-> "success",
                          validation_result |-> json_loads(clean_json_str)[1]]
                    ELSE [status |-> "error",
                          message |-> <<"Failed to parse JSON from validator agent's response.">>,
                          raw_response |-> validator_output_str[1]]

\* _parse_utility_response
parse_utility_response(result) ==
  IF result.status # "success" THEN result
  ELSE [status |-> "success",
        result_text |-> IF Get(result, "content") = None THEN <<>> ELSE Get(result, "content")[1]]

(***************************************************************************)
(* tools.py: configuration and the end of _generic_a2a_tool_handler        *)
(***************************************************************************)
ToolCallers == {"validate_haiku_with_external_agent", "call_utility_a2a"}
ClientCallers == {"call_utility_agent"}

\* the environment variable each tool handler reads
EnvVarName(c) ==
  IF c = "validate_haiku_with_external_agent"
  THEN "HAIKU_VALIDATOR_AGENT_URL" ELSE "HAIKU_UTILITIES_AGENT_URL"

NotSetError(name) ==
  [status |-> "error", message |-> <<name, " environment variable is not set.">>]

\* os.getenv(name, default) on a variable whose value is env
getenv(env, default) == IF env = None THEN default ELSE env

\* the base_url validate_haiku_with_external_agent and call_utility_a2a
\* read: os.getenv(name, "http://localhost:8002")
handler_base_url(env) == getenv(env, Some(DefaultUrl))

\* a slip generic_base_url could hold: the default is given here too
generic_base_url_default(env) == getenv(env, Some(DefaultUrl))

\* the base_url _generic_a2a_tool_handler reads: os.getenv(env_var_name)
generic_base_url(env) == getenv(env, None)

\* the parser each tool handler passes to _generic_a2a_tool_handler
response_parser(c, result) ==
  IF c = "validate_haiku_with_external_agent"
  THEN parse_validator_response(result) ELSE parse_utility_response(result)

\* slips the except clauses could hold: one of them is missing
IsRequestError_never(e) == FALSE
IsException_never(e) == FALSE

\* the except clause of _generic_a2a_tool_handler an exception lands in:
\* except httpx.RequestError, then except Exception
IsRequestError(e) == e = "httpx.RequestError"
IsException(e) == e # "CancelledError"

\* _generic_a2a_tool_handler from the end of _invoke_a2a_agent on: invoked
\* is how _invoke_a2a_agent ended
handler_finish(c, invoked) ==
  IF invoked.kind = "return" THEN Return(response_parser(c, invoked.value))
  ELSE IF IsRequestError(invoked.exc)
  THEN Return([status |-> "error",
               message |-> <<"Network error calling agent at ", EnvVarName(c), invoked.exc>>])
  ELSE IF IsException(invoked.exc)
  THEN Return([status |-> "error",
               message |-> <<"An unexpected error occurred calling agent at ",
                             EnvVarName(c), invoked.exc>>])
  ELSE invoked

(***************************************************************************)
(* test_client.py: the pure steps                                          *)
(***************************************************************************)
\* agent_card.url = base_url (tools.py), and the override of
\* fetch_and_select_agent_card: if public_card.url != base_url: ... = base_url
override_url(card, url) == [card EXCEPT !.url = url]

\* a slip public_card_failure could hold: the failure is swallowed and
\* None is returned for the card
public_card_failure_swallowed(e) == Return(None)

\* fetch_and_select_agent_card when the public card's fetch raised: the
\* outer except clause raises RuntimeError from it
public_card_failure(e) == Raise("RuntimeError")

\* a slip select_card could hold: no inner except clause, so the failure of
\* the extended card's fetch reaches the outer one
select_card_propagate(public_card, fetched) ==
  IF fetched.kind = "return" THEN Return(fetched.value) ELSE Raise("RuntimeError")

\* fetch_and_select_agent_card after the extended card's fetch ended as
\* fetched: it returns the extended card, or, the inner except clause having
\* caught the failure, the public card
select_card(public_card, fetched) ==
  IF fetched.kind = "return" THEN Return(fetched.value) ELSE Return(public_card)

\* call_utility_agent from the response on
client_finish(response) ==
  IF response.variant = "success" /\ response.result.kind = "task"
  THEN IF ~NoArtifactsOrParts(response.result)
       THEN IF "text" \notin DOMAIN ContentPart(response.result)
            THEN Raise("AttributeError")
            ELSE Return(<<"text", ContentPart(response.result).text>>)
       ELSE Return(<<"Error: Failed to get a valid text response. Full response: ", response>>)
  ELSE Return(<<"Error: Failed to get a valid text response. Full response: ", response>>)

(***************************************************************************)
(* State                                                                   *)
(***************************************************************************)
VARIABLES
  pc,          \* where each invocation is: "idle", the network call it awaits, "done"
  caller,      \* the function invoked
  env,         \* the value of the environment variable the tool handler reads
  prompt,      \* prompt_text
  base_url,    \* base_url, once read
  session,     \* the httpx.AsyncClient of the invocation: "none", "open", "closed"
  public_card, \* public_card of fetch_and_select_agent_card, once fetched
  agent_card,  \* the card the A2AClient is built from, if any
  client,      \* the A2AClient, once built
  request,     \* the SendMessageRequest, once built
  net,         \* the network operations started, in order
  failed,      \* the network operations that raised, with the exception
  response,    \* the response of send_message, once received
  invoked,     \* how _invoke_a2a_agent ended: what it returned or raised
  cancelled,   \* whether the calling environment cancelled the invocation
  outcome,     \* how the invocation ended
  uuids,       \* the number of uuid4() values generated so far
  httpx_client, \* the httpx.AsyncClient object of the invocation, once constructed
  objects,     \* the number of httpx.AsyncClient objects constructed so far
  arg,         \* the argument of the pure function under study, if any
  ret,         \* what the function returned, once it has
  haikus,      \* the rows of the table haiku
  tpc,         \* where each client's tool call is: "idle" or the step it is before
  call,        \* the tool call in progress of each client: its arguments and locals
  history      \* the tool calls that ended, in order, with the table before and after

\* the state of the A2A call path, and the state outside it
a2aVars == <<pc, caller, env, prompt, base_url, session, public_card, agent_card, client,
             request, net, failed, response, invoked, cancelled, outcome, uuids,
             httpx_client, objects>>
fnVars == <<arg, ret>>
storeVars == <<haikus, tpc, call, history>>
elsewhere == <<fnVars, storeVars>>
vars == <<a2aVars, elsewhere>>

\* no invocation has started
A2AInit ==
  /\ pc = [i \in Inv |-> "idle"]
  /\ caller = [i \in Inv |-> ""]
  /\ env = [i \in Inv |-> None]
  /\ prompt = [i \in Inv |-> ""]
  /\ base_url = [i \in Inv |-> None]
  /\ session = [i \in Inv |-> "none"]
  /\ public_card = [i \in Inv |-> None]
  /\ agent_card = [i \in Inv |-> None]
  /\ client = [i \in Inv |-> None]
  /\ request = [i \in Inv |-> None]
  /\ net = [i \in Inv |-> <<>>]
  /\ failed = [i \in Inv |-> <<>>]
  /\ response = [i \in Inv |-> None]
  /\ invoked = [i \in Inv |-> None]
  /\ cancelled = [i \in Inv |-> FALSE]
  /\ outcome = [i \in Inv |-> None]
  /\ uuids = 0
  /\ httpx_client = [i \in Inv |-> None]
  /\ objects = 0

\* no pure function is under study
FnIdle == arg = None /\ ret = None

\* the clients of the haiku store; MainProcs are those that call one after
\* the other
Procs == {"p", "q"}
MainProcs == {"p"}

\* the rows create_db_and_tables inserts: the database numbers them 1, 2, 3
SampleData ==
  {[id |-> 1, text |-> "Old silent pond", score |-> 85],
   [id |-> 2, text |-> "An old silent pond", score |-> 92],
   [id |-> 3, text |-> "Light of a candle", score |-> 78]}

\* the store after create_db_and_tables, no tool call in progress
StoreInit ==
  /\ haikus = SampleData
  /\ tpc = [p \in Procs |-> "idle"]
  /\ call = [p \in Procs |-> None]
  /\ history = <<>>

Init == A2AInit /\ FnIdle /\ StoreInit

\* what a network call can end in
Fetched(S) == {Raise(e) : e \in NetErrors} \cup {Return(v) : v \in S}

\* the A2AClient built for a card, and the one built for a bare url
ClientOfCard(card) == [url |-> card.url]
ClientOfUrl(url) == [url |-> url]

\* httpx.AsyncClient(): the n-th call constructs a new object
AsyncClient(n) == n + 1

\* a slip BuildRequest could hold: the message id is derived from the text
BuildRequest_from_text(text, n) ==
  [id |-> n + 2, message |-> [role |-> "user", text |-> text, messageId |-> text]]

\* the payload and request _invoke_a2a_agent and call_utility_agent build:
\* messageId is uuid4().hex and id is str(uuid4()), two fresh values
BuildRequest(text, n) ==
  [id |-> n + 2, message |-> [role |-> "user", text |-> text, messageId |-> n + 1]]

(***************************************************************************)
(* tools.py: the tool handlers                                             *)
(***************************************************************************)
\* validate_haiku_with_external_agent / call_utility_a2a up to the first
\* await of _invoke_a2a_agent: both reads of the environment variable, the
\* opening of the session, the start of resolver.get_agent_card
ToolCall(i, P) ==
  /\ pc[i] = "idle"
  /\ UNCHANGED elsewhere
  /\ \E c \in ToolCallers, e \in EnvValues, p \in P :
       /\ caller' = [caller EXCEPT ![i] = c]
       /\ env' = [env EXCEPT ![i] = e]
       /\ prompt' = [prompt EXCEPT ![i] = p]
       /\ IF FalsyOptStr(handler_base_url(e))
          THEN /\ base_url' = [base_url EXCEPT ![i] = handler_base_url(e)]
               /\ outcome' = [outcome EXCEPT ![i] = Some(Return(NotSetError(EnvVarName(c))))]
               /\ pc' = [pc EXCEPT ![i] = "done"]
               /\ UNCHANGED <<session, net, httpx_client, objects>>
          ELSE IF FalsyOptStr(generic_base_url(e))
          THEN /\ base_url' = [base_url EXCEPT ![i] = generic_base_url(e)]
               /\ outcome' = [outcome EXCEPT ![i] = Some(Return(NotSetError(EnvVarName(c))))]
               /\ pc' = [pc EXCEPT ![i] = "done"]
               /\ UNCHANGED <<session, net, httpx_client, objects>>
          ELSE /\ base_url' = [base_url EXCEPT ![i] = generic_base_url(e)]
               /\ httpx_client' = [httpx_client EXCEPT ![i] = Some(AsyncClient(objects))]
               /\ objects' = objects + 1
               /\ session' = [session EXCEPT ![i] = "open"]
               /\ net' = [net EXCEPT ![i] = <<"get_agent_card">>]
               /\ pc' = [pc EXCEPT ![i] = "get_agent_card"]
               /\ UNCHANGED outcome
  /\ UNCHANGED <<public_card, agent_card, client, request, failed, response, invoked,
                 cancelled, uuids>>

\* _invoke_a2a_agent from the end of resolver.get_agent_card to the start
\* of client.send_message: the card's url is overwritten and the client is
\* built from the card, or, when the fetch raised, from base_url alone
ToolCardReturns(i) ==
  /\ pc[i] = "get_agent_card"
  /\ UNCHANGED <<httpx_client, objects, elsewhere>>
  /\ caller[i] \in ToolCallers
  /\ \E r \in Fetched(PublicCards) :
       IF r.kind = "return"
       THEN /\ agent_card' = [agent_card EXCEPT ![i] = Some(override_url(r.value, base_url[i][1]))]
            /\ client' = [client EXCEPT ![i] =
                            Some(ClientOfCard(override_url(r.value, base_url[i][1])))]
            /\ UNCHANGED failed
       ELSE /\ client' = [client EXCEPT ![i] = Some(ClientOfUrl(base_url[i][1]))]
            /\ failed' = [failed EXCEPT ![i] =
                            Append(@, [op |-> "get_agent_card", exc |-> r.exc])]
            /\ UNCHANGED agent_card
  /\ request' = [request EXCEPT ![i] = Some(BuildRequest(prompt[i], uuids))]
  /\ uuids' = uuids + 2
  /\ net' = [net EXCEPT ![i] = Append(@, "send_message")]
  /\ pc' = [pc EXCEPT ![i] = "send_message"]
  /\ UNCHANGED <<caller, env, prompt, base_url, session, public_card, response, invoked,
                 cancelled, outcome>>

\* from the end of client.send_message to the return of the tool handler:
\* the response handling of _invoke_a2a_agent, the exit of the async with
\* block, the parser and the except clauses of _generic_a2a_tool_handler
ToolSendReturns(i, R) ==
  /\ pc[i] = "send_message"
  /\ UNCHANGED <<httpx_client, objects, elsewhere>>
  /\ caller[i] \in ToolCallers
  /\ \E r \in Fetched(R) :
       IF r.kind = "return"
       THEN /\ response' = [response EXCEPT ![i] = Some(r.value)]
            /\ invoked' = [invoked EXCEPT ![i] = Some(response_handling(r.value))]
            /\ outcome' = [outcome EXCEPT ![i] =
                             Some(handler_finish(caller[i], response_handling(r.value)))]
            /\ UNCHANGED failed
       ELSE /\ failed' = [failed EXCEPT ![i] =
                            Append(@, [op |-> "send_message", exc |-> r.exc])]
            /\ invoked' = [invoked EXCEPT ![i] = Some(r)]
            /\ outcome' = [outcome EXCEPT ![i] = Some(handler_finish(caller[i], r))]
            /\ UNCHANGED response
  /\ session' = [session EXCEPT ![i] = "closed"]
  /\ pc' = [pc EXCEPT ![i] = "done"]
  /\ UNCHANGED <<caller, env, prompt, base_url, public_card, agent_card, client, request,
                 net, cancelled, uuids>>

(***************************************************************************)
(* test_client.py: call_utility_agent                                      *)
(***************************************************************************)
\* call_utility_agent up to the first await of fetch_and_select_agent_card
ClientCall(i, P) ==
  /\ pc[i] = "idle"
  /\ UNCHANGED elsewhere
  /\ \E c \in ClientCallers, p \in P :
       /\ caller' = [caller EXCEPT ![i] = c]
       /\ prompt' = [prompt EXCEPT ![i] = p]
  /\ base_url' = [base_url EXCEPT ![i] = Some(AgentUrl)]
  /\ httpx_client' = [httpx_client EXCEPT ![i] = Some(AsyncClient(objects))]
  /\ objects' = objects + 1
  /\ session' = [session EXCEPT ![i] = "open"]
  /\ net' = [net EXCEPT ![i] = <<"get_agent_card">>]
  /\ pc' = [pc EXCEPT ![i] = "get_agent_card"]
  /\ UNCHANGED <<env, public_card, agent_card, client, request, failed, response, invoked,
                 cancelled, outcome, uuids>>

\* a slip ClientSend could hold: the card is fetched once more before the
\* message is sent
ClientSend_refetch(i, card) ==
  /\ agent_card' = [agent_card EXCEPT ![i] = Some(card)]
  /\ client' = [client EXCEPT ![i] = Some(ClientOfCard(card))]
  /\ request' = [request EXCEPT ![i] = Some(BuildRequest(prompt[i], uuids))]
  /\ uuids' = uuids + 2
  /\ net' = [net EXCEPT ![i] = @ \o <<"get_agent_card", "send_message">>]
  /\ pc' = [pc EXCEPT ![i] = "send_message"]

\* the client is built from the selected card, the request is built and
\* client.send_message starts
ClientSend(i, card) ==
  /\ agent_card' = [agent_card EXCEPT ![i] = Some(card)]
  /\ client' = [client EXCEPT ![i] = Some(ClientOfCard(card))]
  /\ request' = [request EXCEPT ![i] = Some(BuildRequest(prompt[i], uuids))]
  /\ uuids' = uuids + 2
  /\ net' = [net EXCEPT ![i] = Append(@, "send_message")]
  /\ pc' = [pc EXCEPT ![i] = "send_message"]

\* fetch_and_select_agent_card from the end of the public card's fetch: a
\* failure becomes a RuntimeError, which ends call_utility_agent; otherwise
\* the url is overridden and the extended card is fetched if advertised
ClientCardReturns(i) ==
  /\ pc[i] = "get_agent_card"
  /\ UNCHANGED <<httpx_client, objects, elsewhere>>
  /\ caller[i] \in ClientCallers
  /\ \E r \in Fetched(PublicCards) :
       IF r.kind = "raise"
       THEN /\ failed' = [failed EXCEPT ![i] =
                            Append(@, [op |-> "get_agent_card", exc |-> r.exc])]
            /\ outcome' = [outcome EXCEPT ![i] = Some(public_card_failure(r.exc))]
            /\ session' = [session EXCEPT ![i] = "closed"]
            /\ pc' = [pc EXCEPT ![i] = "done"]
            /\ UNCHANGED <<public_card, agent_card, client, request, net, uuids>>
       ELSE /\ public_card' = [public_card EXCEPT ![i] =
                                 Some(override_url(r.value, base_url[i][1]))]
            /\ IF r.value.supports_authenticated_extended_card
               THEN /\ net' = [net EXCEPT ![i] = Append(@, "get_extended_card")]
                    /\ pc' = [pc EXCEPT ![i] = "get_extended_card"]
                    /\ UNCHANGED <<agent_card, client, request, failed, outcome, session,
                                   uuids>>
               ELSE /\ ClientSend(i, override_url(r.value, base_url[i][1]))
                    /\ UNCHANGED <<failed, outcome, session>>
  /\ UNCHANGED <<caller, env, prompt, base_url, response, invoked, cancelled>>

\* fetch_and_select_agent_card from the end of the extended card's fetch
ClientExtReturns(i) ==
  /\ pc[i] = "get_extended_card"
  /\ UNCHANGED <<httpx_client, objects, elsewhere>>
  /\ \E r \in Fetched(ExtendedCards) :
       /\ failed' = [failed EXCEPT ![i] =
                       IF r.kind = "raise"
                       THEN Append(@, [op |-> "get_extended_card", exc |-> r.exc])
                       ELSE @]
       /\ IF select_card(public_card[i][1], r).kind = "return"
          THEN /\ ClientSend(i, select_card(public_card[i][1], r).value)
               /\ UNCHANGED <<outcome, session>>
          ELSE /\ outcome' = [outcome EXCEPT ![i] = Some(select_card(public_card[i][1], r))]
               /\ session' = [session EXCEPT ![i] = "closed"]
               /\ pc' = [pc EXCEPT ![i] = "done"]
               /\ UNCHANGED <<agent_card, client, request, net, uuids>>
  /\ UNCHANGED <<caller, env, prompt, base_url, public_card, response, invoked, cancelled>>

\* call_utility_agent from the end of client.send_message
ClientSendReturns(i, R) ==
  /\ pc[i] = "send_message"
  /\ UNCHANGED <<httpx_client, objects, elsewhere>>
  /\ caller[i] \in ClientCallers
  /\ \E r \in Fetched(R) :
       IF r.kind = "return"
       THEN /\ response' = [response EXCEPT ![i] = Some(r.value)]
            /\ outcome' = [outcome EXCEPT ![i] = Some(client_finish(r.value))]
            /\ UNCHANGED failed
       ELSE /\ failed' = [failed EXCEPT ![i] =
                            Append(@, [op |-> "send_message", exc |-> r.exc])]
            /\ outcome' = [outcome EXCEPT ![i] = Some(r)]
            /\ UNCHANGED response
  /\ session' = [session EXCEPT ![i] = "closed"]
  /\ pc' = [pc EXCEPT ![i] = "done"]
  /\ UNCHANGED <<caller, env, prompt, base_url, public_card, agent_card, client, request,
                 net, invoked, cancelled, uuids>>

\* a slip Cancel could hold: the session is opened without async with, so
\* the cancellation leaves it open
Cancel_leak(i) ==
  /\ pc[i] \in {"get_agent_card", "get_extended_card", "send_message"}
  /\ UNCHANGED <<httpx_client, objects, elsewhere>>
  /\ cancelled' = [cancelled EXCEPT ![i] = TRUE]
  /\ outcome' = [outcome EXCEPT ![i] = Some(Raise("CancelledError"))]
  /\ pc' = [pc EXCEPT ![i] = "done"]
  /\ UNCHANGED <<caller, env, prompt, base_url, session, public_card, agent_card, client,
                 request, net, failed, response, invoked, uuids>>

\* the calling environment cancels the invocation while it awaits a network
\* call: asyncio.CancelledError is no Exception, so no except clause catches
\* it; the async with block closes the session and the error leaves the call
Cancel(i) ==
  /\ pc[i] \in {"get_agent_card", "get_extended_card", "send_message"}
  /\ UNCHANGED <<httpx_client, objects, elsewhere>>
  /\ cancelled' = [cancelled EXCEPT ![i] = TRUE]
  /\ outcome' = [outcome EXCEPT ![i] = Some(Raise("CancelledError"))]
  /\ session' = [session EXCEPT ![i] = "closed"]
  /\ pc' = [pc EXCEPT ![i] = "done"]
  /\ UNCHANGED <<caller, env, prompt, base_url, public_card, agent_card, client, request,
                 net, failed, response, invoked, uuids>>

\* a step of invocation i, its prompt drawn from P and its responses from R
Step(i, P, R) ==
  \/ ToolCall(i, P)
  \/ ToolCardReturns(i)
  \/ ToolSendReturns(i, R)
  \/ ClientCall(i, P)
  \/ ClientCardReturns(i)
  \/ ClientExtReturns(i)
  \/ ClientSendReturns(i, R)
  \/ Cancel(i)

Next == \E i \in MainInv : Step(i, MainPrompts, Responses)

Spec == Init /\ [][Next]_vars

\* the responses of the concurrent specification: an error envelope and a
\* Task whose only part carries "{}"
ConcResponses ==
  {[variant |-> "error", error |-> "internal error"],
   [variant |-> "success",
    result |-> [kind |-> "task", artifacts |-> <<[parts |-> <<TextPart(JsonText)>>]>>]]}

\* two invocations run concurrently: the event loop interleaves them at
\* their awaits
ConcNext == \E i \in Inv : Step(i, Prompts, ConcResponses)

ConcSpec == Init /\ [][ConcNext]_vars

(***************************************************************************)
(* tools.py: _extract_json_from_markdown on its own                        *)
(***************************************************************************)
\* the function is about to be called with some content string
ExtractInit == A2AInit /\ StoreInit /\ arg \in {Some(t) : t \in Contents} /\ ret = None

\* the call of _extract_json_from_markdown
ExtractJson ==
  /\ arg # None
  /\ ret = None
  /\ ret' = Some(extract_json_from_markdown(arg[1]))
  /\ UNCHANGED <<arg, a2aVars, storeVars>>

ExtractNext == ExtractJson

ExtractSpec == ExtractInit /\ [][ExtractNext]_vars

(***************************************************************************)
(* tools.py: _parse_validator_response on its own                          *)
(***************************************************************************)
\* what _invoke_a2a_agent can return: success with a content string, or one
\* of its error results
AdapterResults ==
  {[status |-> "success", content |-> t] : t \in Contents}
  \cup {response_handling(r).value :
          r \in ErrorResponses
                \cup {[variant |-> "success", result |-> MessageResult],
                      [variant |-> "success", result |-> [kind |-> "task"]]}}

\* the parser is about to be called with some adapter result
ParseInit == A2AInit /\ StoreInit /\ arg \in {Some(r) : r \in AdapterResults} /\ ret = None

\* the call response_parser(result) of the validator's tool handler
ParseValidator ==
  /\ arg # None
  /\ ret = None
  /\ ret' = Some(Return(parse_validator_response(arg[1])))
  /\ UNCHANGED <<arg, a2aVars, storeVars>>

ParseNext == ParseValidator

ParseSpec == ParseInit /\ [][ParseNext]_vars

(***************************************************************************)
(* a2a_utilities/agent.py: spooky_case                                     *)
(***************************************************************************)
\* the characters of a string: a lowercase letter, an uppercase letter, a
\* character that is no letter, and "N", the newline
Chars == {"a", "A", ".", "N"}
Strings == UNION {[1..k -> Chars] : k \in 0..MaxStringLen}

\* str.lower and str.upper on one character
Lower(c) == IF c = "A" THEN "a" ELSE c
Upper(c) == IF c = "a" THEN "A" ELSE c

\* str.splitlines: the lines between the newlines; a newline at the end
\* opens no further line, and the empty string has no line
RECURSIVE splitlines(_)
splitlines(s) ==
  IF Len(s) = 0 THEN <<>>
  ELSE LET nl == {k \in 1..Len(s) : s[k] = "N"}
       IN  IF nl = {} THEN <<s>>
           ELSE <<SubSeq(s, 1, Min(nl) - 1)>> \o splitlines(SubSeq(s, Min(nl) + 1, Len(s)))

\* '\n'.join
RECURSIVE join(_)
join(lines) ==
  IF Len(lines) = 0 THEN <<>>
  ELSE IF Len(lines) = 1 THEN lines[1]
  ELSE lines[1] \o <<"N">> \o join(Tail(lines))

\* the inner join of spooky_case: enumerate counts from 0, index i of the
\* model is index i - 1 of the code
spooky_line(line) ==
  [i \in 1..Len(line) |-> IF (i - 1) % 2 = 1 THEN Upper(line[i]) ELSE Lower(line[i])]

\* a slip spooky_case could hold: the index runs over the whole string
spooky_case_no_reset(s) ==
  LET t == join(splitlines(s))
  IN  [i \in 1..Len(t) |->
         IF t[i] = "N" THEN "N"
         ELSE IF (i - 1) % 2 = 1 THEN Upper(t[i]) ELSE Lower(t[i])]

\* spooky_case
spooky_case(s) ==
  join([k \in 1..Len(splitlines(s)) |-> spooky_line(splitlines(s)[k])])

\* the function is about to be called with some string
SpookyInit == A2AInit /\ StoreInit /\ arg \in {Some(s) : s \in Strings} /\ ret = None

\* the call of spooky_case
SpookyCase ==
  /\ arg # None
  /\ ret = None
  /\ ret' = Some(spooky_case(arg[1]))
  /\ UNCHANGED <<arg, a2aVars, storeVars>>

SpookyNext == SpookyCase

SpookySpec == SpookyInit /\ [][SpookyNext]_vars

(***************************************************************************)
(* mcp-haiku-store/server.py: the tools of the haiku store                 *)
(***************************************************************************)
\* the arguments of the model's calls
HaikuTexts == {"A world of dew", "pond"}
Scores == {95}
ArgIds == 1..(Cardinality(SampleData) + MaxCalls)

\* select(func.max(Haiku.id)): None on an empty table
max_id(rows) == IF rows = {} THEN None ELSE Some(Max({r.id : r \in rows}))

\* (max_id or 0) + 1
next_id(m) == (IF m = None \/ m[1] = 0 THEN 0 ELSE m[1]) + 1

\* session.get(Haiku, haiku_id): the row of that primary key, or None
session_get(rows, haiku_id) ==
  IF \E r \in rows : r.id = haiku_id
  THEN Some(CHOOSE r \in rows : r.id = haiku_id)
  ELSE None

\* a slip delete_rows could hold: the rows from that id on are deleted
delete_rows_from(rows, haiku) == {r \in rows : r.id < haiku.id}

\* session.delete(haiku); session.commit(): DELETE ... WHERE id = haiku.id
delete_rows(rows, haiku) == {r \in rows : r.id # haiku.id}

\* the entry of history for a call that ends now with result res
Ended_call(p, tool, args, res, before, after) ==
  [proc |-> p, tool |-> tool, args |-> args, result |-> res, before |-> before,
   after |-> after]

\* the calls started so far
Started == Len(history) + Cardinality({p \in Procs : tpc[p] # "idle"})

\* create_haiku up to session.commit(): the session is opened, the largest
\* id is read and the next one computed
CreateRead(p) ==
  /\ tpc[p] = "idle"
  /\ Started < MaxCalls
  /\ \E text \in HaikuTexts, score \in Scores :
       call' = [call EXCEPT ![p] =
                  Some([tool |-> "create_haiku",
                        args |-> [text |-> text, score |-> score],
                        next_id |-> next_id(max_id(haikus)),
                        before |-> haikus])]
  /\ tpc' = [tpc EXCEPT ![p] = "commit"]
  /\ UNCHANGED <<haikus, history, a2aVars, fnVars>>

\* session.add(haiku); session.commit(): the INSERT is flushed and
\* committed, or, the primary key being taken, the database refuses it and
\* IntegrityError leaves create_haiku
CreateCommit(p) ==
  /\ tpc[p] = "commit"
  /\ call[p][1].tool = "create_haiku"
  /\ IF \E r \in haikus : r.id = call[p][1].next_id
     THEN /\ history' = Append(history,
                               Ended_call(p, "create_haiku", call[p][1].args,
                                          Raise("IntegrityError"), call[p][1].before, haikus))
          /\ tpc' = [tpc EXCEPT ![p] = "idle"]
          /\ call' = [call EXCEPT ![p] = None]
          /\ UNCHANGED haikus
     ELSE /\ haikus' = haikus \cup {[id |-> call[p][1].next_id,
                                      text |-> call[p][1].args.text,
                                      score |-> call[p][1].args.score]}
          /\ tpc' = [tpc EXCEPT ![p] = "refresh"]
          /\ UNCHANGED <<call, history>>
  /\ UNCHANGED <<a2aVars, fnVars>>

\* session.refresh(haiku) and the return: the row of that id is read back,
\* or, the row being gone, InvalidRequestError leaves create_haiku
CreateRefresh(p) ==
  /\ tpc[p] = "refresh"
  /\ history' = Append(history,
                       Ended_call(p, "create_haiku", call[p][1].args,
                                  IF session_get(haikus, call[p][1].next_id) = None
                                  THEN Raise("InvalidRequestError")
                                  ELSE Return(session_get(haikus, call[p][1].next_id)[1]),
                                  call[p][1].before, haikus))
  /\ tpc' = [tpc EXCEPT ![p] = "idle"]
  /\ call' = [call EXCEPT ![p] = None]
  /\ UNCHANGED <<haikus, a2aVars, fnVars>>

\* delete_haiku up to session.delete(haiku): the row is read, and when there
\* is none the call returns
DeleteGet(p) ==
  /\ tpc[p] = "idle"
  /\ Started < MaxCalls
  /\ \E haiku_id \in ArgIds :
       IF session_get(haikus, haiku_id) = None
       THEN /\ history' = Append(history,
                                 Ended_call(p, "delete_haiku", [haiku_id |-> haiku_id],
                                            Return([ok |-> FALSE, message |-> "Haiku not found"]),
                                            haikus, haikus))
            /\ UNCHANGED <<tpc, call>>
       ELSE /\ call' = [call EXCEPT ![p] =
                          Some([tool |-> "delete_haiku",
                                args |-> [haiku_id |-> haiku_id],
                                haiku |-> session_get(haikus, haiku_id)[1],
                                before |-> haikus])]
            /\ tpc' = [tpc EXCEPT ![p] = "commit"]
            /\ UNCHANGED history
  /\ UNCHANGED <<haikus, a2aVars, fnVars>>

\* session.delete(haiku); session.commit() and the return
DeleteCommit(p) ==
  /\ tpc[p] = "commit"
  /\ call[p][1].tool = "delete_haiku"
  /\ haikus' = delete_rows(haikus, call[p][1].haiku)
  /\ history' = Append(history,
                       Ended_call(p, "delete_haiku", call[p][1].args,
                                  Return([ok |-> TRUE,
                                          message |-> "Haiku deleted successfully"]),
                                  call[p][1].before,
                                  delete_rows(haikus, call[p][1].haiku)))
  /\ tpc' = [tpc EXCEPT ![p] = "idle"]
  /\ call' = [call EXCEPT ![p] = None]
  /\ UNCHANGED <<a2aVars, fnVars>>

\* read_haiku
ReadHaiku(p) ==
  /\ tpc[p] = "idle"
  /\ Started < MaxCalls
  /\ \E haiku_id \in ArgIds :
       history' = Append(history,
                         Ended_call(p, "read_haiku", [haiku_id |-> haiku_id],
                                    Return(session_get(haikus, haiku_id)), haikus, haikus))
  /\ UNCHANGED <<haikus, tpc, call, a2aVars, fnVars>>

\* concurrent create_haiku calls
CreateNext == \E p \in Procs : CreateRead(p) \/ CreateCommit(p) \/ CreateRefresh(p)

CreateSpec == Init /\ [][CreateNext]_vars

\* one client calls the tools one after the other
StoreNext ==
  \E p \in MainProcs :
    \/ CreateRead(p)
    \/ CreateCommit(p)
    \/ CreateRefresh(p)
    \/ DeleteGet(p)
    \/ DeleteCommit(p)
    \/ ReadHaiku(p)

StoreSpec == Init /\ [][StoreNext]_vars

(***************************************************************************)
(* Properties                                                              *)
(***************************************************************************)
IsTool(i) == caller[i] \in ToolCallers
IsClient(i) == caller[i] \in ClientCallers

\* the shape of a received response, read off the response itself
IsErrorEnvelope(resp) == resp.variant = "error"
IsTaskResponse(resp) == resp.variant = "success" /\ resp.result.kind = "task"
ArtifactsOf(resp) == IF "artifacts" \in DOMAIN resp.result THEN resp.result.artifacts ELSE <<>>
HasFirstPart(resp) ==
  /\ IsTaskResponse(resp)
  /\ Len(ArtifactsOf(resp)) >= 1
  /\ Len(ArtifactsOf(resp)[1].parts) >= 1
FirstPart(resp) == ArtifactsOf(resp)[1].parts[1]
HasFirstText(resp) == HasFirstPart(resp) /\ "text" \in DOMAIN FirstPart(resp)

\* the tool invocations that received a response
Received(i) == IsTool(i) /\ response[i] # None /\ invoked[i] # None

\* C1: for every success response whose result is a Task whose first
\* artifact's first part carries a non-empty text, _invoke_a2a_agent returns
\* {status: "success", content: that text}, whatever else the Task carries.
C1_ContentIsFirstPartText ==
  \A i \in Inv :
    (/\ Received(i)
     /\ HasFirstText(response[i][1])
     /\ Len(FirstPart(response[i][1]).text) > 0)
    => invoked[i][1] =
         Return([status |-> "success", content |-> FirstPart(response[i][1]).text])

\* a Task with two artifacts and two parts in the first, the second part
\* unlike the first, was unwrapped to the first part's text
C1_Witness ==
  \E i \in Inv :
    /\ Received(i)
    /\ HasFirstText(response[i][1])
    /\ Len(FirstPart(response[i][1]).text) > 0
    /\ Len(ArtifactsOf(response[i][1])) >= 2
    /\ Len(ArtifactsOf(response[i][1])[1].parts) >= 2
    /\ ArtifactsOf(response[i][1])[1].parts[2] # FirstPart(response[i][1])
    /\ ArtifactsOf(response[i][1])[2] # ArtifactsOf(response[i][1])[1]
    /\ invoked[i][1].kind = "return"
    /\ invoked[i][1].value.status = "success"

\* C2: for every error envelope _invoke_a2a_agent returns a result of status
\* "error" that carries the embedded error detail, and for every success
\* envelope whose result is no Task it returns a result of status "error";
\* in neither case does it raise or return status "success".
C2_ErrorEnvelopeAndNonTask ==
  \A i \in Inv :
    Received(i) =>
      /\ IsErrorEnvelope(response[i][1]) =>
           /\ invoked[i][1].kind = "return"
           /\ invoked[i][1].value.status = "error"
           /\ invoked[i][1].value.message[2] = response[i][1].error
      /\ (~IsErrorEnvelope(response[i][1]) /\ ~IsTaskResponse(response[i][1])) =>
           /\ invoked[i][1].kind = "return"
           /\ invoked[i][1].value.status = "error"

\* an error envelope was received and answered with an error result
C2_Witness ==
  \E i \in Inv :
    /\ Received(i)
    /\ IsErrorEnvelope(response[i][1])
    /\ invoked[i][1].kind = "return"
    /\ invoked[i][1].value.status = "error"
    /\ outcome[i] # None
    /\ outcome[i][1].kind = "return"
    /\ outcome[i][1].value.status = "error"

\* C3: for every Task without artifacts (none, or an empty list), or whose
\* first artifact has no parts, _invoke_a2a_agent returns, without raising, a
\* result of status "error" that includes the raw response.
C3_NoArtifactsOrPartsIsError ==
  \A i \in Inv :
    (/\ Received(i)
     /\ IsTaskResponse(response[i][1])
     /\ ~HasFirstPart(response[i][1]))
    => /\ invoked[i][1].kind = "return"
       /\ invoked[i][1].value.status = "error"
       /\ "raw_response" \in DOMAIN invoked[i][1].value
       /\ invoked[i][1].value.raw_response = response[i][1]

\* a Task whose first artifact has no parts, while its second has one, was
\* answered with an error result
C3_Witness ==
  \E i \in Inv :
    /\ Received(i)
    /\ IsTaskResponse(response[i][1])
    /\ Len(ArtifactsOf(response[i][1])) >= 2
    /\ Len(ArtifactsOf(response[i][1])[1].parts) = 0
    /\ Len(ArtifactsOf(response[i][1])[2].parts) >= 1
    /\ invoked[i][1].kind = "return"
    /\ invoked[i][1].value.status = "error"

EmptyFirstText(resp) == HasFirstText(resp) /\ Len(FirstPart(resp).text) = 0

\* C4, as claimed: when the text of the first part of the first artifact is
\* empty, the adapter and both tool handlers return an error result, never a
\* success.
C4_EmptyContentIsError ==
  \A i \in Inv :
    (Received(i) /\ EmptyFirstText(response[i][1]))
    => /\ invoked[i][1].kind = "return"
       /\ invoked[i][1].value.status = "error"
       /\ outcome[i][1].kind = "return"
       /\ outcome[i][1].value.status = "error"

\* C4, amended: when that text is empty, _invoke_a2a_agent returns
\* {status: "success", content: ""}; validate_haiku_with_external_agent then
\* returns the error "Validator agent returned an empty response." with the
\* adapter's result attached, and call_utility_a2a returns
\* {status: "success", result_text: ""}.
C4_EmptyContentPerCaller ==
  \A i \in Inv :
    (Received(i) /\ EmptyFirstText(response[i][1]))
    => /\ invoked[i][1] = Return([status |-> "success", content |-> <<>>])
       /\ caller[i] = "validate_haiku_with_external_agent" =>
            outcome[i][1] =
              Return([status |-> "error",
                      message |-> <<"Validator agent returned an empty response.">>,
                      raw_response |-> invoked[i][1].value])
       /\ caller[i] = "call_utility_a2a" =>
            outcome[i][1] = Return([status |-> "success", result_text |-> <<>>])

\* the validator handler received an empty first text and returned an error
C4_Witness ==
  \E i \in Inv :
    /\ Received(i)
    /\ EmptyFirstText(response[i][1])
    /\ caller[i] = "validate_haiku_with_external_agent"
    /\ outcome[i][1].kind = "return"
    /\ outcome[i][1].value.status = "error"

Range(f) == {f[k] : k \in DOMAIN f}
FailedOps(i) == {f.op : f \in Range(failed[i])}
Ended(i) == pc[i] = "done" /\ outcome[i] # None
EndedInError(i) ==
  /\ Ended(i)
  /\ \/ outcome[i][1].kind = "raise"
     \/ /\ IsTool(i)
        /\ outcome[i][1].value.status = "error"

\* C5, as claimed: if the fetch of the public descriptor fails, the call
\* ends in an error and no message is sent.
C5_CardFailureEndsCall ==
  \A i \in Inv :
    "get_agent_card" \in FailedOps(i)
    => /\ "send_message" \notin Range(net[i])
       /\ EndedInError(i)

\* C5, amended: if the fetch of the public descriptor fails, then in the
\* test client fetch_and_select_agent_card raises RuntimeError, which ends
\* call_utility_agent, and no message is sent; in _invoke_a2a_agent the
\* failure is caught, the client is built from base_url alone, with no card,
\* and the message is sent.
C5_CardFailurePerCaller ==
  \A i \in Inv :
    "get_agent_card" \in FailedOps(i)
    => /\ IsClient(i) =>
            /\ Ended(i)
            /\ outcome[i][1] = Raise("RuntimeError")
            /\ "send_message" \notin Range(net[i])
            /\ request[i] = None
       /\ IsTool(i) =>
            /\ agent_card[i] = None
            /\ client[i] = Some(ClientOfUrl(base_url[i][1]))
            /\ request[i] # None
            /\ net[i] = <<"get_agent_card", "send_message">>

\* a tool handler returned a success although the descriptor's fetch failed
C5_Witness ==
  \E i \in Inv :
    /\ IsTool(i)
    /\ "get_agent_card" \in FailedOps(i)
    /\ Ended(i)
    /\ outcome[i][1].kind = "return"
    /\ outcome[i][1].value.status = "success"

\* C6: the url of the descriptor that is selected and handed to the client
\* equals the caller-supplied base URL in every case, the extended
\* descriptor included.
C6_SelectedCardUrlIsBaseUrl ==
  \A i \in Inv :
    (agent_card[i] # None /\ client[i] # None)
    => /\ agent_card[i][1].url = base_url[i][1]
       /\ client[i][1].url = base_url[i][1]

\* C7: in fetch_and_select_agent_card, when the extended descriptor's fetch
\* fails the public descriptor is selected and the message is sent, no
\* RuntimeError being raised; the extended descriptor is selected only when
\* its fetch succeeded; it is fetched only when the public one advertises it.
C7_ExtendedCardFallback ==
  \A i \in Inv :
    IsClient(i) =>
      /\ "get_extended_card" \in FailedOps(i) =>
           /\ public_card[i] # None
           /\ agent_card[i] = public_card[i]
           /\ client[i] = Some(ClientOfCard(public_card[i][1]))
           /\ "send_message" \in Range(net[i])
           /\ outcome[i] # Some(Raise("RuntimeError"))
      /\ (agent_card[i] # None /\ agent_card[i][1].name = "extended") =>
           /\ "get_extended_card" \in Range(net[i])
           /\ "get_extended_card" \notin FailedOps(i)
      /\ "get_extended_card" \in Range(net[i]) =>
           /\ public_card[i] # None
           /\ public_card[i][1].supports_authenticated_extended_card

\* the extended descriptor's fetch failed and the call returned the text of
\* the response to the message it sent
C7_Witness ==
  \E i \in Inv :
    /\ IsClient(i)
    /\ "get_extended_card" \in FailedOps(i)
    /\ agent_card[i] = public_card[i]
    /\ Ended(i)
    /\ response[i] # None
    /\ outcome[i][1].kind = "return"
    /\ outcome[i][1].value[1] = "text"

\* C8: every invocation of a tool handler that the calling environment does
\* not cancel ends by returning a result tagged "success" or "error",
\* whatever the response and whatever is absent in it; no exception leaves
\* the handler.
C8_ToolHandlersReturnTaggedResult ==
  \A i \in Inv :
    (IsTool(i) /\ pc[i] = "done" /\ ~cancelled[i])
    => /\ outcome[i] # None
       /\ outcome[i][1].kind = "return"
       /\ outcome[i][1].value.status \in {"success", "error"}

\* a Task whose first part carries no text made _invoke_a2a_agent raise, and
\* the handler returned an error result
C8_Witness ==
  \E i \in Inv :
    /\ Received(i)
    /\ HasFirstPart(response[i][1])
    /\ ~HasFirstText(response[i][1])
    /\ invoked[i][1].kind = "raise"
    /\ Ended(i)
    /\ outcome[i][1].kind = "return"
    /\ outcome[i][1].value.status = "error"

\* the exception the named network operation raised, if it raised
FailedWith(i, op) == {f.exc : f \in {g \in Range(failed[i]) : g.op = op}}

IsNetworkErrorResult(o) ==
  /\ o.kind = "return"
  /\ o.value.status = "error"
  /\ o.value.message[1] = "Network error calling agent at "

\* C9, as claimed: a transport-level failure in any network step of a tool
\* invocation, descriptor fetch or message send, makes the invocation return
\* an error result of the "network error" category.
C9_TransportFailureIsNetworkError ==
  \A i \in Inv :
    (/\ IsTool(i)
     /\ pc[i] = "done"
     /\ ~cancelled[i]
     /\ \E f \in Range(failed[i]) : f.exc = "httpx.RequestError")
    => IsNetworkErrorResult(outcome[i][1])

\* C9, amended: a tool invocation returns the "Network error calling agent
\* at <variable>" result exactly when client.send_message raised
\* httpx.RequestError; another exception of the send gives the "An unexpected
\* error occurred" result; a failure of the descriptor fetch, transport-level
\* or not, gives no error result by itself: the message is sent all the same.
C9_NetworkErrorIsSendFailure ==
  \A i \in Inv :
    (IsTool(i) /\ pc[i] = "done" /\ ~cancelled[i] /\ outcome[i] # None)
    => /\ "httpx.RequestError" \in FailedWith(i, "send_message") =>
            outcome[i][1] =
              Return([status |-> "error",
                      message |-> <<"Network error calling agent at ",
                                    EnvVarName(caller[i]), "httpx.RequestError">>])
       /\ "Exception" \in FailedWith(i, "send_message") =>
            outcome[i][1] =
              Return([status |-> "error",
                      message |-> <<"An unexpected error occurred calling agent at ",
                                    EnvVarName(caller[i]), "Exception">>])
       /\ IsNetworkErrorResult(outcome[i][1]) =>
            "httpx.RequestError" \in FailedWith(i, "send_message")
       /\ FailedWith(i, "get_agent_card") # {} => "send_message" \in Range(net[i])

\* the send raised httpx.RequestError and the handler returned the network
\* error result
C9_Witness ==
  \E i \in Inv :
    /\ IsTool(i)
    /\ Ended(i)
    /\ "httpx.RequestError" \in FailedWith(i, "send_message")
    /\ IsNetworkErrorResult(outcome[i][1])

\* C10: when the environment variable naming the service's base URL is unset
\* or empty, the tool handler returns the configuration error result without
\* raising, without opening a session and without any network operation.
C10_MissingUrlIsConfigurationError ==
  \A i \in Inv :
    (IsTool(i) /\ FalsyOptStr(env[i]))
    => /\ pc[i] = "done"
       /\ outcome[i] =
            Some(Return([status |-> "error",
                         message |-> <<EnvVarName(caller[i]),
                                       " environment variable is not set.">>]))
       /\ session[i] = "none"
       /\ net[i] = <<>>
       /\ client[i] = None

\* a tool handler was called with the variable unset and returned the
\* configuration error
C10_Witness ==
  \E i \in Inv :
    /\ IsTool(i)
    /\ env[i] = None
    /\ Ended(i)
    /\ outcome[i][1].kind = "return"
    /\ outcome[i][1].value.status = "error"
    /\ session[i] = "none"

\* the network operations an invocation awaits, and the orders in which the
\* code can start them
NetOps == {"get_agent_card", "get_extended_card", "send_message"}
IsPrefix(s, t) == Len(s) <= Len(t) /\ s = SubSeq(t, 1, Len(s))
Completed(i) == IF pc[i] \in NetOps THEN Len(net[i]) - 1 ELSE Len(net[i])

\* C11: within one invocation the network operations are the public card's
\* fetch, then the extended card's fetch (only when the public card
\* advertises one), then the message send, then the unwrapping of the
\* response; an operation starts only when every earlier one has ended, the
\* only one in flight is the last one started, none is started twice, and
\* none is started again after a failure.
C11_NetworkOperationsInOrder ==
  \A i \in Inv :
    /\ \/ IsPrefix(net[i], <<"get_agent_card", "send_message">>)
       \/ /\ IsPrefix(net[i], <<"get_agent_card", "get_extended_card", "send_message">>)
          /\ Len(net[i]) >= 2 =>
               /\ public_card[i] # None
               /\ public_card[i][1].supports_authenticated_extended_card
    /\ pc[i] \in NetOps => (net[i] # <<>> /\ net[i][Len(net[i])] = pc[i])
    /\ Len(failed[i]) <= Completed(i)
    /\ \A k \in 1..Len(failed[i]) : \E n \in 1..Completed(i) : net[i][n] = failed[i][k].op
    /\ (response[i] # None \/ invoked[i] # None) =>
         /\ pc[i] = "done"
         /\ net[i] # <<>>
         /\ net[i][Len(net[i])] = "send_message"

\* an invocation ran all three operations, the extended card's fetch failed
\* and the send still happened once, its response unwrapped
C11_Witness ==
  \E i \in Inv :
    /\ net[i] = <<"get_agent_card", "get_extended_card", "send_message">>
    /\ FailedOps(i) = {"get_extended_card"}
    /\ response[i] # None
    /\ Ended(i)

\* C12: the transport session an invocation opens is released on every way
\* the invocation can end (a returned result, an error result, an exception
\* of a card fetch or of the send, a cancellation while a network operation
\* is in flight): a session is open only while its invocation awaits a
\* network operation.
C12_SessionReleased ==
  \A i \in Inv :
    /\ session[i] = "open" <=> pc[i] \in NetOps
    /\ pc[i] = "done" => session[i] \in {"none", "closed"}
    /\ net[i] # <<>> => session[i] # "none"

\* an invocation was cancelled while its send was in flight and its session
\* is closed
C12_Witness ==
  \E i \in Inv :
    /\ cancelled[i]
    /\ net[i] # <<>>
    /\ net[i][Len(net[i])] = "send_message"
    /\ pc[i] = "done"
    /\ session[i] = "closed"

\* C13: however concurrent invocations interleave, no two of them share an
\* httpx.AsyncClient or a message identifier (each request carries freshly
\* generated identifiers, different across requests whether or not the
\* prompts are equal), and the outcome of an invocation depends only on its
\* own caller, base URL, prompt and the results of its own network
\* operations: two invocations equal in these end equally.
C13_InvocationsAreIsolated ==
  \A i, j \in Inv :
    i # j =>
      /\ (httpx_client[i] # None /\ httpx_client[j] # None)
           => httpx_client[i] # httpx_client[j]
      /\ (request[i] # None /\ request[j] # None)
           => /\ request[i][1].message.messageId # request[j][1].message.messageId
              /\ request[i][1].id # request[j][1].id
      /\ (/\ Ended(i) /\ Ended(j)
          /\ caller[i] = caller[j]
          /\ base_url[i] = base_url[j]
          /\ prompt[i] = prompt[j]
          /\ failed[i] = failed[j]
          /\ public_card[i] = public_card[j]
          /\ agent_card[i] = agent_card[j]
          /\ response[i] = response[j]
          /\ cancelled[i] = cancelled[j])
         => outcome[i] = outcome[j]

\* two invocations of one caller with the same base URL and prompt, each on
\* its own session with its own request, received equal responses and ended
\* equally
C13_Witness ==
  \E i, j \in Inv :
    /\ i # j
    /\ prompt[i] = prompt[j]
    /\ request[i] # None /\ request[j] # None
    /\ request[i][1].id < request[j][1].id
    /\ response[j] # None
    /\ response[i] # None
    /\ response[i] = response[j]
    /\ caller[i] = caller[j]
    /\ base_url[i] = base_url[j]
    /\ Ended(i) /\ Ended(j)
    /\ outcome[i] = outcome[j]
    /\ httpx_client[i] # httpx_client[j]

\* the fences of a content string; a fenced block is opened by a fence and
\* closed by the next one, and its interior is what stands between them,
\* the language tag aside
Fences(t) == {k \in 1..Len(t) : t[k] = "F"}
HasFencedBlock(t) == Cardinality(Fences(t)) >= 2
BlockOpen(t) == Min(Fences(t))
BlockClose(t) == Min(Fences(t) \ {BlockOpen(t)})
Interior(t) == SubSeq(t, BlockOpen(t) + 1, BlockClose(t) - 1)
InteriorBody(t) ==
  IF Len(Interior(t)) >= 1 /\ Interior(t)[1] = "J"
  THEN SubSeq(Interior(t), 2, Len(Interior(t)))
  ELSE Interior(t)

\* C14: for every content string that holds a fenced block, with or without
\* a language tag, _extract_json_from_markdown returns the interior of that
\* block (with or without the blanks around it); for every content string
\* without a fenced block it returns the string unchanged.
C14_FencedInteriorExtracted ==
  (arg # None /\ ret # None) =>
    IF HasFencedBlock(arg[1])
    THEN ret[1] \in {InteriorBody(arg[1]), Strip(InteriorBody(arg[1]))}
    ELSE ret[1] = arg[1]

\* the parser was called and has returned
Parsed == arg # None /\ ret # None
HasContent(r) == r.status = "success" /\ "content" \in DOMAIN r /\ Len(r.content) > 0
Candidate(r) == extract_json_from_markdown(r.content)

\* C15 as stated: for the validator, whenever the received content does not
\* parse as JSON after the fenced-block extraction, the parser returns the
\* "failed to parse" error result carrying the text as received.
C15_ParseFailureIsParseError ==
  (Parsed /\ arg[1].status = "success" /\ json_loads(Candidate(arg[1])) = None) =>
    /\ ret[1].kind = "return"
    /\ ret[1].value.status = "error"
    /\ ret[1].value.message = <<"Failed to parse JSON from validator agent's response.">>

\* C15: for the validator, when the received content, not empty, does not
\* parse as JSON after the fenced-block extraction, the parser returns the
\* "failed to parse" error result, which carries the text as received, and
\* does not raise; when it parses, the parser returns status "success" with
\* the parsed value as validation_result; an adapter result that is no
\* success is returned unchanged.
C15_ValidatorParse ==
  Parsed =>
    /\ ret[1].kind = "return"
    /\ arg[1].status # "success" => ret[1].value = arg[1]
    /\ (HasContent(arg[1]) /\ json_loads(Candidate(arg[1])) = None) =>
         ret[1].value =
           [status |-> "error",
            message |-> <<"Failed to parse JSON from validator agent's response.">>,
            raw_response |-> arg[1].content]
    /\ (HasContent(arg[1]) /\ json_loads(Candidate(arg[1])) # None) =>
         ret[1].value =
           [status |-> "success", validation_result |-> json_loads(Candidate(arg[1]))[1]]

\* a fenced text whose extracted candidate differs from it failed to parse,
\* and the error result carries the text with its fences
C15_Witness ==
  /\ Parsed
  /\ HasContent(arg[1])
  /\ Candidate(arg[1]) # arg[1].content
  /\ json_loads(Candidate(arg[1])) = None
  /\ ret[1].value.status = "error"
  /\ ret[1].value.raw_response = arg[1].content

\* the index the character at position p has within its line, from 0
IndexInLine(s, p) == p - 1 - Max({0} \cup {k \in 1..(p - 1) : s[k] = "N"})
\* the length of s without a newline at its end
LenJoined(s) == IF Len(s) > 0 /\ s[Len(s)] = "N" THEN Len(s) - 1 ELSE Len(s)

\* C16: spooky_case maps every string so that, within each line, the
\* character at an even index is lowercased and the character at an odd
\* index is uppercased, the index restarting at 0 on every line; the lines
\* are joined with newlines, and a character that is no letter counts
\* towards the index.
C16_SpookyCaseAlternatesPerLine ==
  (arg # None /\ ret # None) =>
    /\ Len(ret[1]) = LenJoined(arg[1])
    /\ \A p \in 1..Len(ret[1]) :
         IF arg[1][p] = "N" THEN ret[1][p] = "N"
         ELSE IF IndexInLine(arg[1], p) % 2 = 0
         THEN ret[1][p] = Lower(arg[1][p])
         ELSE ret[1][p] = Upper(arg[1][p])

\* a string of two lines, the first of even length and holding a character
\* that is no letter: the second line starts lowercased again
C16_Witness ==
  /\ arg # None /\ ret # None
  /\ Len(arg[1]) = 5
  /\ arg[1][1] = "." /\ arg[1][2] = "a"
  /\ arg[1][3] = "N"
  /\ arg[1][4] = "A" /\ arg[1][5] = "a"
  /\ ret[1] = <<".", "A", "N", "a", "A">>

\* the calls of one tool that ended, by their place in history
CallsOf(tool) == {n \in 1..Len(history) : history[n].tool = tool}
IdsOf(rows) == {r.id : r \in rows}

\* C17: however concurrent create_haiku calls interleave, no two of them
\* compute the same id, every call returns the haiku it was given under its
\* new id, and no two rows of the table share an id.
C17_ConcurrentCreatesSucceed ==
  /\ \A p, q \in Procs :
       (p # q /\ call[p] # None /\ call[q] # None)
       => call[p][1].next_id # call[q][1].next_id
  /\ \A n \in CallsOf("create_haiku") :
       /\ history[n].result.kind = "return"
       /\ history[n].result.value.text = history[n].args.text
       /\ history[n].result.value.score = history[n].args.score
  /\ \A r1, r2 \in haikus : r1.id = r2.id => r1 = r2

\* the rows stored at some time before the n-th ended call returned
StoredBefore(n) ==
  SampleData \cup history[n].before
             \cup UNION {history[m].before \cup history[m].after : m \in 1..(n - 1)}

\* C18: after any sequence of create_haiku and delete_haiku calls, the id a
\* create_haiku call returns was never the id of a haiku stored earlier, the
\* deleted ones included.
C18_IdsNeverReused ==
  \A n \in CallsOf("create_haiku") :
    history[n].result.kind = "return"
    => history[n].result.value.id \notin IdsOf(StoredBefore(n))

\* C19: delete_haiku(haiku_id) changes only the haiku of that id: when none
\* is stored it returns ok False with "Haiku not found" and the table is as
\* before; when one is stored it removes that row and no other, returns ok
\* True, and a read_haiku of that id that follows returns nothing.
C19_DeleteChangesOnlyThatHaiku ==
  \A n \in CallsOf("delete_haiku") :
    LET e == history[n]
        stored == {r \in e.before : r.id = e.args.haiku_id}
    IN  IF stored = {}
        THEN /\ e.result = Return([ok |-> FALSE, message |-> "Haiku not found"])
             /\ e.after = e.before
        ELSE /\ e.result.kind = "return"
             /\ e.result.value.ok = TRUE
             /\ e.after = e.before \ stored
             /\ Cardinality(stored) = 1
             /\ (n = Len(history) /\ tpc = [p \in Procs |-> "idle"]) => haikus = e.after
             /\ (/\ n < Len(history)
                 /\ history[n + 1].tool = "read_haiku"
                 /\ history[n + 1].args.haiku_id = e.args.haiku_id)
                => history[n + 1].result = Return(None)

\* a stored haiku was deleted, the others stayed, and the read_haiku of its
\* id that followed returned nothing
C19_Witness ==
  \E n \in CallsOf("delete_haiku") :
    /\ history[n].result.value.ok = TRUE
    /\ Cardinality(history[n].after) >= 2
    /\ Cardinality(history[n].before) = Cardinality(history[n].after) + 1
    /\ n < Len(history)
    /\ history[n + 1].tool = "read_haiku"
    /\ history[n + 1].args.haiku_id = history[n].args.haiku_id
    /\ history[n + 1].result = Return(None)

====
